---- MODULE Spec2Model ----
(***************************************************************************)
(* Model of the vrf-rarity program (programs/vrf-rarity/src/lib.rs).       *)
(*                                                                         *)
(* Two instructions: roll_rarity creates a RarityResult account at the     *)
(* address derived from ("rarity", payer, nonce) and sends a randomness    *)
(* request to the VRF oracle; callback_roll_rarity is the entry point the  *)
(* oracle invokes, which maps the randomness to a rarity and stores it.    *)
(* Each instruction runs inside one host transaction: it either commits    *)
(* all of its writes or none of them.                                      *)
(***************************************************************************)
EXTENDS Integers, Sequences, FiniteSets, Bags, TLC

(***************************************************************************)
(* Bounds of the model.                                                    *)
(***************************************************************************)
\* how many distinct nonces a payer may use
NumNonces == 2

\* the signers that submit rolls
Players == {"A", "B"}

\* nonces are u64 values chosen by the payer; the model uses 7, 8, ...
Nonces == {7 + k : k \in 0..(NumNonces - 1)}

\* the nonces each player uses: A rolls with every nonce, B with the first
NoncesOf(p) == IF p = "A" THEN Nonces ELSE {7}

\* randomness values the oracle (or anyone else) passes to the callback.  A
\* 32-byte string is represented by the integer it encodes.
RandomnessSamples == {83, 99, 183}

(***************************************************************************)
(* Program constants.                                                      *)
(***************************************************************************)
ID == "8U41n8DFkJUiyrxzCLpNQyvAAbHfnoD2GvRpCxQxiMaQ"

RARITY_SEED == "rarity"

VRF_PROGRAM_IDENTITY == "VRF_PROGRAM_IDENTITY"

DEFAULT_QUEUE == "DEFAULT_QUEUE"

CALLBACK_DISCRIMINATOR == "CallbackRollRarity"

\* largest value of a u8 (rarity, roll_value, bump and the bytes of a seed)
U8Max == 255

\* every key a caller can present as its identity
Identities == Players \cup {VRF_PROGRAM_IDENTITY}

\* accounts a caller can pass in the oracle_queue slot
Queues == {DEFAULT_QUEUE, "OTHER_QUEUE"}

(***************************************************************************)
(* State.                                                                  *)
(*   records   the RarityResult accounts that exist, by address            *)
(*   requests  the randomness requests sent to the oracle (a bag)          *)
(*   lastOp    the last instruction executed, its inputs and its outcome   *)
(*   roll, rarity   the locals of callback_roll_rarity, as last logged     *)
(***************************************************************************)
VARIABLES records, requests, lastOp, roll, rarity

vars == <<records, requests, lastOp, roll, rarity>>

(***************************************************************************)
(* Addressing.                                                             *)
(***************************************************************************)
\* the derivation with the nonce left out of the seeds
PDA_WithoutNonce(payer, nonce) == <<RARITY_SEED, payer, 7>>

\* the derivation with the payer left out of the seeds
PDA_WithoutPayer(payer, nonce) == <<RARITY_SEED, "A", nonce>>

\* the program-derived address of seeds [RARITY_SEED, payer, nonce LE bytes];
\* the derivation is collision resistant, hence modelled as injective
PDA(payer, nonce) == <<RARITY_SEED, payer, nonce>>

Addresses == UNION {{PDA(p, n) : n \in NoncesOf(p)} : p \in Players}

\* the canonical bump of the derivation: a fixed function of the seeds
Bump(payer, nonce) == U8Max - (nonce % 2)

\* the k low-order bytes of n, least significant first
RECURSIVE LeBytes(_, _)
LeBytes(n, k) == IF k = 0 THEN <<>> ELSE <<n % 256>> \o LeBytes(n \div 256, k - 1)

\* the bytes of n most significant first (u64::to_be_bytes)
to_le_bytes_BigEndian(n) == [i \in 1..8 |-> LeBytes(n, 8)[9 - i]]

\* u64::to_le_bytes
to_le_bytes(n) == LeBytes(n, 8)

\* the 32-byte caller seed: nonce in the first 8 bytes, zero elsewhere
caller_seed(nonce) == to_le_bytes(nonce) \o [i \in 1..24 |-> 0]

(***************************************************************************)
(* Account validation (the constraints of the two account contexts).       *)
(***************************************************************************)
\* Signer<'info>: the account passed in the slot signed this invocation
SignerCheck(is_signer) == is_signer

\* the constraint as init_if_needed: an existing account is accepted
InitConstraint_IfNeeded(recs, addr) == TRUE

\* #[account(init, seeds = [...], bump)]: creation fails when the derived
\* address already holds an account
InitConstraint(recs, addr) == addr \notin DOMAIN recs

\* #[account(mut, address = DEFAULT_QUEUE)]
OracleQueueConstraint(queue) == queue = DEFAULT_QUEUE

\* the slot without its address constraint: any signer is accepted
VrfIdentityConstraint_Missing(acct) == TRUE

\* #[account(address = VRF_PROGRAM_IDENTITY)]
VrfIdentityConstraint(acct) == acct = VRF_PROGRAM_IDENTITY

\* the slot as an unchecked account: nothing is required of the address
RecordLoads_Unchecked(recs, addr) == TRUE

\* Account<'info, RarityResult>: the address holds an account of this program
RecordLoads(recs, addr) == addr \in DOMAIN recs

(***************************************************************************)
(* roll_rarity.                                                            *)
(***************************************************************************)
\* the initializer with an "unset" marker in rarity instead of zero
NewRecord_UnsetMarker(payer, nonce) ==
    [player     |-> payer,
     nonce      |-> nonce,
     rarity     |-> U8Max,
     fulfilled  |-> FALSE,
     roll_value |-> 0,
     bump       |-> Bump(payer, nonce)]

\* lines 17-23: the fields written into the fresh account
NewRecord(payer, nonce) ==
    [player     |-> payer,
     nonce      |-> nonce,
     rarity     |-> 0,
     fulfilled  |-> FALSE,
     roll_value |-> 0,
     bump       |-> Bump(payer, nonce)]

\* the request with the record listed as a read-only callback account
RandomnessRequest_ReadOnlyMeta(payer, queue, nonce) ==
    [payer                  |-> payer,
     oracle_queue           |-> queue,
     callback_program_id    |-> ID,
     callback_discriminator |-> CALLBACK_DISCRIMINATOR,
     caller_seed            |-> caller_seed(nonce),
     accounts_metas         |-> <<[pubkey      |-> PDA(payer, nonce),
                                   is_signer   |-> FALSE,
                                   is_writable |-> FALSE]>>]

\* lines 29-41: the request handed to the VRF program
RandomnessRequest(payer, queue, nonce) ==
    [payer                  |-> payer,
     oracle_queue           |-> queue,
     callback_program_id    |-> ID,
     callback_discriminator |-> CALLBACK_DISCRIMINATOR,
     caller_seed            |-> caller_seed(nonce),
     accounts_metas         |-> <<[pubkey      |-> PDA(payer, nonce),
                                   is_signer   |-> FALSE,
                                   is_writable |-> TRUE]>>]

\* the instruction on a host that keeps the created account when the request
\* to the oracle fails
RollRarityOutcome_NoRollback(recs, reqs, payer, nonce, queue, cpiOk) ==
    LET addr == PDA(payer, nonce)
        fail(e) == [result |-> e, records |-> recs, requests |-> reqs]
        created == [a \in DOMAIN recs \cup {addr} |->
                      IF a = addr THEN NewRecord(payer, nonce) ELSE recs[a]]
    IN  IF ~InitConstraint(recs, addr) THEN fail("DuplicateRequest")
        ELSE IF ~OracleQueueConstraint(queue) THEN fail("InvalidOracleTarget")
        ELSE IF ~cpiOk
               THEN [result |-> "OracleUnavailable", records |-> created, requests |-> reqs]
        ELSE [result   |-> "Ok",
              records  |-> created,
              requests |-> reqs (+) SetToBag({RandomnessRequest(payer, queue, nonce)})]

\* the instruction without the request to the oracle
RollRarityOutcome_NoDispatch(recs, reqs, payer, nonce, queue, cpiOk) ==
    LET addr == PDA(payer, nonce)
        fail(e) == [result |-> e, records |-> recs, requests |-> reqs]
    IN  IF ~InitConstraint(recs, addr) THEN fail("DuplicateRequest")
        ELSE IF ~OracleQueueConstraint(queue) THEN fail("InvalidOracleTarget")
        ELSE [result   |-> "Ok",
              records  |-> [a \in DOMAIN recs \cup {addr} |->
                               IF a = addr THEN NewRecord(payer, nonce) ELSE recs[a]],
              requests |-> reqs]

\* The whole instruction as a function of the state and its inputs.  The
\* account at the seeds is created while the accounts are loaded, the address
\* constraint of the queue is checked after that, and then the handler runs;
\* cpiOk is the outcome of invoke_signed_vrf.  Any error aborts the
\* transaction, which undoes the creation.
RollRarityOutcome(recs, reqs, payer, nonce, queue, cpiOk) ==
    LET addr == PDA(payer, nonce)
        fail(e) == [result |-> e, records |-> recs, requests |-> reqs]
    IN  IF ~InitConstraint(recs, addr) THEN fail("DuplicateRequest")
        ELSE IF ~OracleQueueConstraint(queue) THEN fail("InvalidOracleTarget")
        ELSE IF ~cpiOk THEN fail("OracleUnavailable")
        ELSE [result   |-> "Ok",
              records  |-> [a \in DOMAIN recs \cup {addr} |->
                               IF a = addr THEN NewRecord(payer, nonce) ELSE recs[a]],
              requests |-> reqs (+) SetToBag({RandomnessRequest(payer, queue, nonce)})]

roll_rarity(payer, nonce, queue, cpiOk) ==
    LET out == RollRarityOutcome(records, requests, payer, nonce, queue, cpiOk)
    IN  /\ records' = out.records
        /\ requests' = out.requests
        /\ lastOp' = [op |-> "roll_rarity", caller |-> payer,
                      addr |-> PDA(payer, nonce), nonce |-> nonce,
                      result |-> out.result]
        /\ UNCHANGED <<roll, rarity>>

(***************************************************************************)
(* callback_roll_rarity.                                                   *)
(***************************************************************************)
\* ephemeral_vrf_sdk::rnd::random_u8_with_range: a value in [min, max] that is
\* a function of the randomness
random_u8_with_range(randomness, min, max) == min + (randomness % (max - min + 1))

\* the chain with strict comparisons
Rarity_Strict(r) ==
    IF r < 49 THEN 0
    ELSE IF r < 79 THEN 1
    ELSE IF r < 94 THEN 2
    ELSE IF r < 98 THEN 3
    ELSE 4

\* lines 64-74: the rarity of a roll
Rarity(r) ==
    IF r <= 49 THEN 0
    ELSE IF r <= 79 THEN 1
    ELSE IF r <= 94 THEN 2
    ELSE IF r <= 98 THEN 3
    ELSE 4

\* the writes with rarity and roll stored in each other's field
FulfilledRecord_Swapped(rec, r, rar) ==
    [rec EXCEPT !.rarity = r, !.roll_value = rar, !.fulfilled = TRUE]

\* the writes with the roll also stored over the bump
FulfilledRecord_ClobbersBump(rec, r, rar) ==
    [rec EXCEPT !.rarity = rar, !.roll_value = r, !.fulfilled = TRUE, !.bump = r]

\* the writes without the one of rarity
FulfilledRecord_KeepsRarity(rec, r, rar) ==
    [rec EXCEPT !.roll_value = r, !.fulfilled = TRUE]

\* lines 78-81: the fields the callback writes
FulfilledRecord(rec, r, rar) ==
    [rec EXCEPT !.rarity = rar, !.roll_value = r, !.fulfilled = TRUE]

\* the instruction with a close constraint on rarity_result: the account is
\* removed once the handler has run
CallbackOutcome_ClosesRecord(recs, acct, is_signer, addr, randomness) ==
    LET r == random_u8_with_range(randomness, 0, 99)
        fail(e) == [result |-> e, records |-> recs, logged |-> FALSE, roll |-> 0, rarity |-> 0]
    IN  IF ~SignerCheck(is_signer) THEN fail("UntrustedCallback")
        ELSE IF ~RecordLoads(recs, addr) THEN fail("RecordNotFound")
        ELSE IF ~VrfIdentityConstraint(acct) THEN fail("UntrustedCallback")
        ELSE [result  |-> "Ok",
              records |-> [a \in DOMAIN recs \ {addr} |-> recs[a]],
              logged  |-> TRUE,
              roll    |-> r,
              rarity  |-> Rarity(r)]

\* The whole instruction as a function of the state and its inputs: `acct` is
\* the account passed as vrf_program_identity (the identity the caller
\* presents), `is_signer` whether it signed the invocation, `addr` the account
\* passed as rarity_result.  Both accounts are loaded before the address
\* constraint is checked.
CallbackOutcome(recs, acct, is_signer, addr, randomness) ==
    LET r == random_u8_with_range(randomness, 0, 99)
        fail(e) == [result |-> e, records |-> recs, logged |-> FALSE, roll |-> 0, rarity |-> 0]
    IN  IF ~SignerCheck(is_signer) THEN fail("UntrustedCallback")
        ELSE IF ~RecordLoads(recs, addr) THEN fail("RecordNotFound")
        ELSE IF ~VrfIdentityConstraint(acct) THEN fail("UntrustedCallback")
        ELSE [result  |-> "Ok",
              records |-> [recs EXCEPT ![addr] = FulfilledRecord(recs[addr], r, Rarity(r))],
              logged  |-> TRUE,
              roll    |-> r,
              rarity  |-> Rarity(r)]

callback_roll_rarity(acct, is_signer, addr, randomness) ==
    LET out == CallbackOutcome(records, acct, is_signer, addr, randomness)
    IN  /\ records' = out.records
        /\ lastOp' = [op |-> "callback_roll_rarity", caller |-> acct,
                      is_signer |-> is_signer, addr |-> addr,
                      randomness |-> randomness, result |-> out.result]
        /\ IF out.logged
             THEN roll' = out.roll /\ rarity' = out.rarity
             ELSE UNCHANGED <<roll, rarity>>
        /\ UNCHANGED requests

(***************************************************************************)
(* The program: any caller may send either instruction at any time.        *)
(***************************************************************************)
NoRecords == [a \in {} |-> 0]

Init ==
    /\ records = NoRecords
    /\ requests = EmptyBag
    /\ lastOp = [op |-> "none"]
    /\ roll = 0
    /\ rarity = -1

Next ==
    \/ \E payer \in Players, queue \in Queues, cpiOk \in BOOLEAN :
          \E nonce \in NoncesOf(payer) :
             roll_rarity(payer, nonce, queue, cpiOk)
    \/ \E acct \in Identities, is_signer \in BOOLEAN, addr \in Addresses,
          randomness \in RandomnessSamples :
          callback_roll_rarity(acct, is_signer, addr, randomness)

Spec == Init /\ [][Next]_vars

(***************************************************************************)
(* The classifier on its own: every u8 roll is classified once.            *)
(***************************************************************************)
InitClassifier ==
    /\ records = NoRecords
    /\ requests = EmptyBag
    /\ lastOp = [op |-> "none"]
    /\ roll \in 0..U8Max
    /\ rarity = -1

Classify ==
    /\ rarity = -1
    /\ rarity' = Rarity(roll)
    /\ UNCHANGED <<records, requests, lastOp, roll>>

NextClassifier == Classify

SpecClassifier == InitClassifier /\ [][NextClassifier]_vars

TypeOK ==
    /\ DOMAIN records \subseteq Addresses
    /\ \A a \in DOMAIN records :
          /\ records[a].player \in Players
          /\ records[a].nonce \in Nonces
          /\ records[a].rarity \in 0..U8Max
          /\ records[a].fulfilled \in BOOLEAN
          /\ records[a].roll_value \in 0..U8Max
          /\ records[a].bump \in 0..U8Max
    /\ IsABag(requests)
    /\ roll \in 0..U8Max
    /\ rarity \in -1..U8Max

(***************************************************************************)
(* Properties.                                                             *)
(***************************************************************************)
IsFulfilled(recs, a) == a \in DOMAIN recs /\ recs[a].fulfilled

IsPending(recs, a) == a \in DOMAIN recs /\ ~recs[a].fulfilled

\* the last instruction was a callback presenting the signed oracle identity
OracleCalled(op) ==
    /\ op.op = "callback_roll_rarity"
    /\ op.caller = VRF_PROGRAM_IDENTITY
    /\ op.is_signer

\* C1: a callback with the correct oracle identity on a record that is already
\* fulfilled fails with AlreadyFulfilled and leaves the record as it was,
\* whatever randomness it carries.
C1_SecondFulfillRejected ==
    [][(OracleCalled(lastOp') /\ IsFulfilled(records, lastOp'.addr))
         => /\ lastOp'.result = "AlreadyFulfilled"
            /\ records'[lastOp'.addr] = records[lastOp'.addr]]_vars

\* C2: a callback presenting an identity other than the oracle's, on a record
\* that exists (pending or fulfilled), fails with UntrustedCallback and changes
\* no record; and a record becomes fulfilled only in a callback that presents
\* the signed oracle identity.
C2_AuthenticationGate ==
    [][/\ (/\ lastOp'.op = "callback_roll_rarity"
           /\ lastOp'.caller # VRF_PROGRAM_IDENTITY
           /\ lastOp'.addr \in DOMAIN records)
          => (lastOp'.result = "UntrustedCallback" /\ records' = records)
       /\ \A a \in DOMAIN records' :
             (records'[a].fulfilled /\ ~IsFulfilled(records, a))
                => OracleCalled(lastOp')]_vars

C2_Witness ==
    /\ lastOp.op = "callback_roll_rarity"
    /\ lastOp.caller # VRF_PROGRAM_IDENTITY
    /\ lastOp.is_signer
    /\ lastOp.result = "UntrustedCallback"
    /\ IsFulfilled(records, lastOp.addr)
    /\ \E a \in DOMAIN records : ~records[a].fulfilled

\* C3: roll_rarity on a (payer, nonce) whose record exists fails with
\* DuplicateRequest and changes neither that record nor anything else; on a
\* pair without a record it does not fail as a duplicate, and when it succeeds
\* the record exists afterwards.
C3_DuplicateRejected ==
    [][lastOp'.op = "roll_rarity"
         => IF lastOp'.addr \in DOMAIN records
              THEN /\ lastOp'.result = "DuplicateRequest"
                   /\ records' = records
                   /\ requests' = requests
              ELSE /\ lastOp'.result # "DuplicateRequest"
                   /\ lastOp'.result = "Ok" => IsPending(records', lastOp'.addr)]_vars

C3_Witness ==
    /\ lastOp.op = "roll_rarity"
    /\ lastOp.result = "DuplicateRequest"
    /\ IsFulfilled(records, lastOp.addr)
    /\ records[lastOp.addr].roll_value = 99

\* C4: rarity and roll_value of a record are written at most once, only by the
\* callback and only in the step that takes the record from pending to
\* fulfilled; afterwards they keep their values.
C4_WriteOnce ==
    [][\A a \in DOMAIN records :
          /\ a \in DOMAIN records'
          /\ (\/ records'[a].rarity # records[a].rarity
              \/ records'[a].roll_value # records[a].roll_value)
                => /\ lastOp'.op = "callback_roll_rarity"
                   /\ lastOp'.addr = a
                   /\ ~records[a].fulfilled
                   /\ records'[a].fulfilled]_vars

\* C5: a record is created pending, and a fulfilled record stays fulfilled in
\* every later step; no record disappears.
C5_StatusMonotonic ==
    [][/\ \A a \in DOMAIN records :
             /\ a \in DOMAIN records'
             /\ records[a].fulfilled => records'[a].fulfilled
       /\ \A a \in DOMAIN records' \ DOMAIN records : ~records'[a].fulfilled]_vars

C5_Witness ==
    /\ lastOp.op = "roll_rarity"
    /\ lastOp.result = "Ok"
    /\ \E a \in DOMAIN records : a # lastOp.addr /\ records[a].fulfilled

\* the bands of the rarity table: tier t covers BandLow[t+1]..BandHigh[t+1]
BandLow == <<0, 50, 80, 95, 99>>

BandHigh == <<49, 79, 94, 98, 99>>

BandSize == <<50, 30, 15, 4, 1>>

TierOf(r) == CHOOSE t \in 0..4 : BandLow[t + 1] <= r /\ r <= BandHigh[t + 1]

\* no record has only part of a fulfillment written into it
NoPartialFulfillment ==
    \A a \in DOMAIN records :
       IF records[a].fulfilled
         THEN /\ records[a].roll_value \in 0..99
              /\ records[a].rarity = TierOf(records[a].roll_value)
         ELSE records[a].roll_value = 0 /\ records[a].rarity = 0

\* C6: a successful callback on a pending record, with randomness that reduces
\* to roll r, leaves the record fulfilled with roll_value = r and the rarity of
\* r's band (r = 83 gives rarity 2, Rare), its other fields as they were; the
\* three fields are written in the one step, so no state shows part of them.
C6_FulfillWritesResult ==
    /\ []NoPartialFulfillment
    /\ [][(/\ lastOp'.op = "callback_roll_rarity"
           /\ lastOp'.result = "Ok"
           /\ IsPending(records, lastOp'.addr))
            => LET r == random_u8_with_range(lastOp'.randomness, 0, 99)
               IN  /\ records'[lastOp'.addr] =
                         [records[lastOp'.addr] EXCEPT !.fulfilled = TRUE,
                                                       !.roll_value = r,
                                                       !.rarity = TierOf(r)]
                   /\ r = 83 => records'[lastOp'.addr].rarity = 2]_vars

C6_Witness ==
    /\ lastOp.op = "callback_roll_rarity"
    /\ lastOp.result = "Ok"
    /\ lastOp.addr = PDA("A", 7)
    /\ records[PDA("A", 7)].fulfilled
    /\ records[PDA("A", 7)].roll_value = 83
    /\ records[PDA("A", 7)].rarity = 2

\* C7: every roll in 0..99 is classified into exactly the tier whose band
\* holds it: 0-49 -> 0, 50-79 -> 1, 80-94 -> 2, 95-98 -> 3, 99 -> 4; the bands
\* are contiguous, cover 0..99 and have 50, 30, 15, 4 and 1 rolls.
C7_ClassifierBands ==
    /\ (rarity # -1 /\ roll <= 99)
         => /\ rarity \in 0..4
            /\ BandLow[rarity + 1] <= roll
            /\ roll <= BandHigh[rarity + 1]
    /\ (rarity # -1 /\ roll \in {49, 79, 94, 98}) => rarity = TierOf(roll + 1) - 1
    /\ BandLow[1] = 0 /\ BandHigh[5] = 99
    /\ \A t \in 1..4 : BandLow[t + 1] = BandHigh[t] + 1
    /\ \A t \in 0..4 : Cardinality({r \in 0..99 : Rarity(r) = t}) = BandSize[t + 1]

C7_Witness == roll = 95 /\ rarity = 3

\* C8: a successful roll_rarity creates, at an address that held no record, a
\* pending record with the payer, the nonce and zero rarity and roll_value; and
\* in every state every pending record has rarity 0 and roll_value 0.
C8_PendingIsZeroed ==
    /\ [](\A a \in DOMAIN records :
             ~records[a].fulfilled => (records[a].rarity = 0 /\ records[a].roll_value = 0))
    /\ [][(lastOp'.op = "roll_rarity" /\ lastOp'.result = "Ok")
            => /\ lastOp'.addr \notin DOMAIN records
               /\ lastOp'.addr \in DOMAIN records'
               /\ records'[lastOp'.addr].player = lastOp'.caller
               /\ records'[lastOp'.addr].nonce = lastOp'.nonce
               /\ records'[lastOp'.addr].fulfilled = FALSE
               /\ records'[lastOp'.addr].rarity = 0
               /\ records'[lastOp'.addr].roll_value = 0]_vars

C8_Witness ==
    /\ lastOp.op = "roll_rarity"
    /\ lastOp.result = "Ok"
    /\ lastOp.nonce = 8
    /\ IsPending(records, lastOp.addr)

\* C9: player, nonce and bump of a record never change after its creation,
\* whichever instruction runs and however it ends.
C9_IdentityFieldsImmutable ==
    [][\A a \in DOMAIN records :
          /\ a \in DOMAIN records'
          /\ records'[a].player = records[a].player
          /\ records'[a].nonce = records[a].nonce
          /\ records'[a].bump = records[a].bump]_vars

C9_Witness ==
    /\ lastOp.op = "callback_roll_rarity"
    /\ lastOp.result = "Ok"
    /\ records[lastOp.addr].player = "B"
    /\ records[lastOp.addr].roll_value = 99

\* an instruction on one record, sent with a valid queue and a working oracle
\* (submit) or by the oracle (fulfill), applied to a state
ApplyOp(st, o) ==
    IF o.kind = "submit"
      THEN LET out == RollRarityOutcome(st.records, st.requests, o.payer, o.nonce,
                                        DEFAULT_QUEUE, TRUE)
           IN  [records |-> out.records, requests |-> out.requests,
                ok |-> st.ok /\ out.result = "Ok"]
      ELSE LET out == CallbackOutcome(st.records, VRF_PROGRAM_IDENTITY, TRUE,
                                      PDA(o.payer, o.nonce), o.randomness)
           IN  [records |-> out.records, requests |-> st.requests,
                ok |-> st.ok /\ out.result = "Ok"]

RECURSIVE Run(_, _)
Run(st, ops) == IF ops = <<>> THEN st ELSE Run(ApplyOp(st, Head(ops)), Tail(ops))

\* the orders of <<submit 1, fulfill 1, submit 2, fulfill 2>> that keep each
\* record's submit before its fulfill
Interleavings ==
    {<<1, 2, 3, 4>>, <<1, 3, 2, 4>>, <<1, 3, 4, 2>>,
     <<3, 1, 2, 4>>, <<3, 1, 4, 2>>, <<3, 4, 1, 2>>}

\* the instructions that can be sent about the record of (p, n)
OpsOn(p, n) ==
    {[kind |-> "submit", payer |-> p, nonce |-> n, randomness |-> 0]}
      \cup {[kind |-> "fulfill", payer |-> p, nonce |-> n, randomness |-> x] :
               x \in RandomnessSamples}

\* in the current state: two instructions on records of one payer with different
\* nonces give the same state and the same outcomes in either order, and when
\* neither record exists every interleaving of their submits and fulfills
\* succeeds and ends in one state
OrderIrrelevant ==
    LET st == [records |-> records, requests |-> requests, ok |-> TRUE]
        then(s, o) == ApplyOp([s EXCEPT !.ok = TRUE], o)
    IN  \A p \in Players : \A n1, n2 \in NoncesOf(p) :
           n1 < n2 =>
             /\ \A o1 \in OpsOn(p, n1) :
                   LET s1 == ApplyOp(st, o1)
                   IN  \A o2 \in OpsOn(p, n2) :
                          LET s2 == ApplyOp(st, o2)
                              s12 == then(s1, o2)
                              s21 == then(s2, o1)
                          IN  /\ s12.records = s21.records
                              /\ s12.requests = s21.requests
                              /\ s1.ok = s21.ok
                              /\ s2.ok = s12.ok
             /\ (PDA(p, n1) \notin DOMAIN records /\ PDA(p, n2) \notin DOMAIN records)
                  => \A x1, x2 \in RandomnessSamples :
                        LET ops == <<[kind |-> "submit", payer |-> p, nonce |-> n1, randomness |-> 0],
                                     [kind |-> "fulfill", payer |-> p, nonce |-> n1, randomness |-> x1],
                                     [kind |-> "submit", payer |-> p, nonce |-> n2, randomness |-> 0],
                                     [kind |-> "fulfill", payer |-> p, nonce |-> n2, randomness |-> x2]>>
                            end(i) == Run(st, [k \in 1..4 |-> ops[i[k]]])
                            first == end(<<1, 2, 3, 4>>)
                        IN  /\ first.ok
                            /\ IsFulfilled(first.records, PDA(p, n1))
                            /\ IsFulfilled(first.records, PDA(p, n2))
                            /\ \A i \in Interleavings : end(i) = first

\* C10: an instruction changes no record but the one it targets and creates no
\* other; instructions on two records of one payer with different nonces
\* commute, and every interleaving of their submits and fulfills (each submit
\* before its fulfill) succeeds and ends in the same state of both records.
C10_IndependentRecords ==
    /\ []OrderIrrelevant
    /\ [][/\ \A a \in DOMAIN records :
                a # lastOp'.addr => (a \in DOMAIN records' /\ records'[a] = records[a])
          /\ DOMAIN records' \subseteq DOMAIN records \cup {lastOp'.addr}]_vars

C10_Witness ==
    /\ IsFulfilled(records, PDA("A", 7))
    /\ IsFulfilled(records, PDA("A", 8))
    /\ records[PDA("A", 7)].roll_value # records[PDA("A", 8)].roll_value
    /\ lastOp.op = "callback_roll_rarity"
    /\ lastOp.addr = PDA("A", 7)

\* C11: a roll_rarity that fails, for whichever reason (duplicate, wrong or
\* missing queue, failed request to the oracle), leaves the set of records,
\* every record and the requests sent exactly as they were; one that succeeds
\* leaves a pending record at its address.
C11_FailedSubmitChangesNothing ==
    [][lastOp'.op = "roll_rarity"
         => IF lastOp'.result = "Ok"
              THEN IsPending(records', lastOp'.addr)
              ELSE /\ lastOp'.result \in {"DuplicateRequest", "InvalidOracleTarget",
                                          "OracleUnavailable"}
                   /\ records' = records
                   /\ requests' = requests]_vars

C11_Witness ==
    /\ lastOp.op = "roll_rarity"
    /\ lastOp.result = "OracleUnavailable"
    /\ lastOp.addr \notin DOMAIN records
    /\ DOMAIN records # {}

\* C12: no record is ever removed, and a pending record changes only in a
\* successful callback on that same record, which fulfills it; every other
\* step, and any time spent without a step, leaves it pending and unchanged.
C12_NoExpiryNoDeletion ==
    [][/\ DOMAIN records \subseteq DOMAIN records'
       /\ \A a \in DOMAIN records :
             (~records[a].fulfilled /\ records'[a] # records[a])
                => /\ lastOp'.op = "callback_roll_rarity"
                   /\ lastOp'.addr = a
                   /\ lastOp'.result = "Ok"
                   /\ records'[a].fulfilled]_vars

C12_Witness ==
    /\ lastOp.op = "callback_roll_rarity"
    /\ lastOp.result = "Ok"
    /\ \E a \in DOMAIN records : a # lastOp.addr /\ ~records[a].fulfilled
    /\ Cardinality(DOMAIN records) = Cardinality(Addresses)

\* C13: a callback on an address that holds no record fails, with
\* RecordNotFound when it presents the signed oracle identity, and creates
\* nothing; a record comes into existence only in a successful roll_rarity.
C13_MissingRecordRejected ==
    [][/\ (lastOp'.op = "callback_roll_rarity" /\ lastOp'.addr \notin DOMAIN records)
          => /\ lastOp'.result # "Ok"
             /\ OracleCalled(lastOp') => lastOp'.result = "RecordNotFound"
             /\ records' = records
       /\ \A a \in DOMAIN records' \ DOMAIN records :
             /\ lastOp'.op = "roll_rarity"
             /\ lastOp'.result = "Ok"
             /\ lastOp'.addr = a]_vars

C13_Witness ==
    /\ OracleCalled(lastOp)
    /\ lastOp.result = "RecordNotFound"
    /\ lastOp.addr \notin DOMAIN records
    /\ \E a \in DOMAIN records : records[a].fulfilled

\* C15: a successful roll_rarity adds exactly one record, at its own address,
\* and sends exactly one request, which names this program and its callback
\* instruction and lists exactly that address, writable and not a signer; no
\* other step sends a request; there are always as many requests as records.
C15_OneRequestPerRecord ==
    /\ [](BagCardinality(requests) = Cardinality(DOMAIN records))
    /\ [][IF lastOp'.op = "roll_rarity" /\ lastOp'.result = "Ok"
            THEN /\ lastOp'.addr \notin DOMAIN records
                 /\ DOMAIN records' = DOMAIN records \cup {lastOp'.addr}
                 /\ \E req \in BagToSet(requests') :
                       /\ requests' = requests (+) SetToBag({req})
                       /\ req.payer = lastOp'.caller
                       /\ req.callback_program_id = ID
                       /\ req.callback_discriminator = CALLBACK_DISCRIMINATOR
                       /\ req.accounts_metas = <<[pubkey      |-> lastOp'.addr,
                                                  is_signer   |-> FALSE,
                                                  is_writable |-> TRUE]>>
            ELSE requests' = requests /\ DOMAIN records' = DOMAIN records]_vars

C15_Witness ==
    /\ lastOp.op = "roll_rarity"
    /\ lastOp.result = "Ok"
    /\ BagCardinality(requests) = 2
    /\ Cardinality(DOMAIN records) = 2

\* nonces on which the seed encoding is tried, up to the largest integer of
\* the model checker
SeedNonceSamples == {0, 7, 255, 256, 258, 65535, 65536, 16777221, 2147483647}

\* seed is 32 bytes, the first 8 the little-endian digits of n (n < 2^31, so
\* bytes 5 to 8 are zero) and the remaining 24 zero
SeedEncodes(seed, n) ==
    /\ Len(seed) = 32
    /\ \A i \in 1..32 : seed[i] \in 0..U8Max
    /\ \A i \in 5..32 : seed[i] = 0
    /\ seed[1] + 256 * seed[2] + 65536 * seed[3] + 16777216 * seed[4] = n

\* C16: the caller seed of every request is the little-endian encoding of the
\* nonce of the record it names in its first 8 bytes and zero in the other 24;
\* requests of different nonces carry different seeds and requests of two
\* payers with the same nonce carry the same seed.
C16_SeedFromNonce ==
    /\ \A n \in SeedNonceSamples : SeedEncodes(caller_seed(n), n)
    /\ \A req \in BagToSet(requests) :
          /\ req.accounts_metas[1].pubkey \in DOMAIN records
          /\ SeedEncodes(req.caller_seed, records[req.accounts_metas[1].pubkey].nonce)
    /\ \A r1, r2 \in BagToSet(requests) :
          (r1.caller_seed = r2.caller_seed)
             <=> (records[r1.accounts_metas[1].pubkey].nonce
                    = records[r2.accounts_metas[1].pubkey].nonce)

C16_Witness ==
    /\ \E r1, r2 \in BagToSet(requests) :
          r1.payer = "A" /\ r2.payer = "B" /\ r1.caller_seed = r2.caller_seed
    /\ \E r1, r2 \in BagToSet(requests) :
          r1.payer = "A" /\ r2.payer = "A" /\ r1.caller_seed # r2.caller_seed

\* C17: every fulfilled record has roll_value in 0..99, rarity in 0..4 and
\* rarity equal to the tier of the band that holds roll_value, however many
\* callbacks have been applied to it.
C17_FulfilledConsistent ==
    \A a \in DOMAIN records :
       records[a].fulfilled
          => /\ records[a].roll_value \in 0..99
             /\ records[a].rarity \in 0..4
             /\ BandLow[records[a].rarity + 1] <= records[a].roll_value
             /\ records[a].roll_value <= BandHigh[records[a].rarity + 1]

C17_Witness ==
    /\ lastOp.op = "callback_roll_rarity"
    /\ lastOp.result = "Ok"
    /\ records[lastOp.addr].roll_value = 99
    /\ records[lastOp.addr].rarity = 4
    /\ \E a \in DOMAIN records :
          records[a].fulfilled /\ records[a].roll_value = 83 /\ records[a].rarity = 2

\* C18: the record at the address derived from (identity, nonce) has that
\* identity as player and that nonce; a roll_rarity signed by one identity
\* creates or changes no record of another identity.
C18_RecordKeyedToSigner ==
    /\ [](\A p \in Players : \A n \in NoncesOf(p) :
             PDA(p, n) \in DOMAIN records
                => (records[PDA(p, n)].player = p /\ records[PDA(p, n)].nonce = n))
    /\ [][lastOp'.op = "roll_rarity"
            => \A a \in DOMAIN records' :
                  records'[a].player # lastOp'.caller
                     => (a \in DOMAIN records /\ records'[a] = records[a])]_vars

C18_Witness ==
    /\ lastOp.op = "roll_rarity"
    /\ lastOp.result = "Ok"
    /\ lastOp.caller = "B"
    /\ PDA("A", 7) \in DOMAIN records
    /\ PDA("B", 7) \in DOMAIN records
    /\ records[PDA("A", 7)].player = "A"
    /\ records[PDA("B", 7)].player = "B"

\* some request sent so far names address a as its callback account
RequestedFor(reqs, a) ==
    \E req \in BagToSet(reqs) : req.accounts_metas[1].pubkey = a

\* C19: every record, and so every fulfilled record, has a request sent for its
\* address; a record is created pending, by a successful roll_rarity that
\* sends that request; and a callback succeeds only on a record that existed,
\* with its request sent, before the callback.
C19_RequestPrecedesFulfillment ==
    /\ [](\A a \in DOMAIN records : RequestedFor(requests, a))
    /\ [][/\ \A a \in DOMAIN records' \ DOMAIN records :
                /\ ~records'[a].fulfilled
                /\ lastOp'.op = "roll_rarity"
                /\ lastOp'.result = "Ok"
                /\ RequestedFor(requests', a)
          /\ (lastOp'.op = "callback_roll_rarity" /\ lastOp'.result = "Ok")
                => (lastOp'.addr \in DOMAIN records /\ RequestedFor(requests, lastOp'.addr))]_vars

C19_Witness ==
    /\ lastOp.op = "callback_roll_rarity"
    /\ lastOp.result = "Ok"
    /\ records[lastOp.addr].fulfilled
    /\ RequestedFor(requests, lastOp.addr)
    /\ BagCardinality(requests) = 1

====
